---- MODULE Spec2Model ----
(***************************************************************************)
(* Model of the video generation server: the socket handlers of app.js,    *)
(* createStoryVideo of script.js and createMixedVideo of mixer.js.         *)
(*                                                                         *)
(* The host is a single-threaded event loop: the synchronous code between  *)
(* two awaits of an encoding-engine call is one atomic action.  The engine *)
(* (ffmpeg / ffprobe), the clock and the outcome of fs.rmSync belong to    *)
(* the environment: the model chooses them nondeterministically.           *)
(***************************************************************************)
EXTENDS Integers, Sequences, FiniteSets, TLC

\* ---- bounds of the model ------------------------------------------------
MaxScenes == 2      \* subtitle segments of an uploaded .srt: 0..MaxScenes
MaxImages == 1      \* usable image files of an upload: 0..MaxImages
MaxClock == 1       \* Date.now() takes the values 0..MaxClock
MaxTickEvents == 1  \* 'rendering' events the engine's callbacks cause in one mix

Runs == {"r1", "r2"}          \* two socket events that start a generation
Sessions == {"s1", "s2"}      \* session ids the clients send

VARIABLES
    clock,      \* the time (ms) at which the last trigger was handled
    uploads,    \* uploads/<sessionId>: what each session directory holds
    workDirs,   \* the temp_clips_<t> directories that exist, by their t
    clipFiles,  \* <<t, k, r>>: clip_k.mp4 of directory t holds run r's render
    run,        \* per run: position, inputs, events emitted, engine calls
    connected,  \* per run: the socket that triggered it is still connected
    calc        \* a call of one of the pure helpers: its arguments and result

vars == <<clock, uploads, workDirs, clipFiles, run, connected, calc>>
\* what the handlers of a generation never touch
aux == <<connected, calc>>

\* ---- messages of the errors the code raises ------------------------------
MsgAudioDir == "Audio directory not found. Upload may have failed."
MsgSrtDir == "SRT directory not found. Upload may have failed."
MsgImagesDir == "Images directory not found. Upload may have failed."
MsgPathType == "The \"path\" argument must be of type string. Received undefined"
MsgImageNotFound == "Image not found"
MsgAudioNotFound == "Audio file not found"
MsgMainAudio == "Main audio missing"
MsgBgAudio == "Background audio missing"
MsgVisual == "Visual (Image/Video) missing"
MsgProbeMain == "Failed to probe main audio"
MsgMixFailed == "FFmpeg processing failed"
MsgEngineClip == "ffmpeg: clip render failed"
MsgEngineConcat == "ffmpeg: concat failed"
MsgEngineProbe == "ffprobe failed"
MsgEngineMux == "ffmpeg: mux failed"
MsgWriteConcat == "ENOENT: no such file or directory, open concat.txt"
MsgRm == "rmSync failed"

\* ---- progress values ------------------------------------------------------
\* A percent is the exact rational num/den; an event whose object has no
\* `progress` property has has = FALSE.
Pct(n, d) == [has |-> TRUE, num |-> n, den |-> d]
NoPct == [has |-> FALSE, num |-> 0, den |-> 1]
PctLeq(a, b) == a.num * b.den <= b.num * a.den
PctEq(a, b) == a.num * b.den = b.num * a.den

\* progress: (i / scenesData.length) * 50
ClipPercent(i, n) == Pct(i * 50, n)
ConcatPercent == Pct(60, 1)
\* (faulty variant: the audio stage announced below the concatenation's 60)
AudioPercentLow == Pct(50, 1)
AudioPercent == Pct(80, 1)
CleanupPercent == Pct(95, 1)
\* (faulty variant: the done event repeats the cleanup value)
StoryDonePercentLow == Pct(95, 1)
StoryDonePercent == Pct(100, 1)
AnalyzePercent == Pct(10, 1)
\* progress: 10 + progress.percent * 0.85
RenderPercent(p) == Pct(1000 + 85 * p, 100)
MixedDonePercent == Pct(100, 1)

\* ---- events on a run's channel -------------------------------------------
NoFile == <<>>
ProgressEv(status, pct, msg) ==
    [type |-> "progress", status |-> status, pct |-> pct, msg |-> msg, file |-> NoFile]
FinishedEv(name) ==
    [type |-> "finished", status |-> "", pct |-> NoPct, msg |-> "", file |-> name]
ErrorEv(msg) ==
    [type |-> "error", status |-> "", pct |-> NoPct, msg |-> msg, file |-> NoFile]

Emit(rec, ev) == [rec EXCEPT !.events = Append(@, ev)]
CallEngine(rec, op, idx) == [rec EXCEPT !.calls = Append(@, <<op, idx>>)]

\* ---- the upload area -------------------------------------------------------
NoUpload ==
    [exists |-> FALSE, audio |-> FALSE, srt |-> -1, imageDir |-> FALSE,
     images |-> 0, bgAudio |-> FALSE, visual |-> FALSE]

\* What one upload request of the story client carries (audio, srt, images)
\* and what one of the mixer client carries (audio, bgAudio, visual).  The
\* images directory exists as soon as one file arrived in the field; `images`
\* counts the files whose extension srtToScenes accepts.
StoryForm(n, m) ==
    [exists |-> TRUE, audio |-> TRUE, srt |-> n, imageDir |-> TRUE,
     images |-> m, bgAudio |-> FALSE, visual |-> FALSE]
MixedForm ==
    [exists |-> TRUE, audio |-> TRUE, srt |-> -1, imageDir |-> FALSE,
     images |-> 0, bgAudio |-> TRUE, visual |-> TRUE]
\* an upload request with the two audio fields only
MixedAudioForm ==
    [exists |-> TRUE, audio |-> TRUE, srt |-> -1, imageDir |-> FALSE,
     images |-> 0, bgAudio |-> TRUE, visual |-> FALSE]
UploadForms ==
    {StoryForm(n, m) : n \in 0..MaxScenes, m \in 0..MaxImages}
        \cup {MixedForm, MixedAudioForm}

Max(a, b) == IF a >= b THEN a ELSE b

\* multer's diskStorage: every file is stored under its original name in the
\* directory of its field, created on demand; existing files stay.
StoreUpload(old, f) ==
    [exists |-> TRUE,
     audio |-> old.audio \/ f.audio,
     srt |-> IF f.srt >= 0 THEN f.srt ELSE old.srt,
     imageDir |-> old.imageDir \/ f.imageDir,
     images |-> Max(old.images, f.images),
     bgAudio |-> old.bgAudio \/ f.bgAudio,
     visual |-> old.visual \/ f.visual]

\* ---- runs ------------------------------------------------------------------
NoDir == 0 - 1
IdleRun ==
    [pc |-> "idle", kind |-> "none", session |-> "none", tempDir |-> NoDir,
     created |-> FALSE, outputName |-> NoFile, scenes |-> 0, images |-> 0,
     i |-> 0, ticks |-> 0, events |-> <<>>, calls |-> <<>>,
     failure |-> "", engineFailed |-> FALSE, rmFault |-> FALSE,
     catchRmFault |-> FALSE, sessionRmFault |-> FALSE, removals |-> 0,
     dirAtCall |-> FALSE, clipPaths |-> <<>>, manifest |-> <<>>]

\* no helper call is being looked at
NoCalc == [op |-> "none"]

Init ==
    /\ clock = 0
    /\ uploads = [s \in Sessions |-> NoUpload]
    /\ workDirs = {}
    /\ clipFiles = {}
    /\ run = [r \in Runs |-> IdleRun]
    /\ connected = [r \in Runs |-> TRUE]
    /\ calc = NoCalc

\* The values Date.now() may return to the next handler: time does not run
\* backwards.
Now == clock..MaxClock

\* POST /upload.  A session directory receives the files of one request; the
\* next request for the same session id is served after the directory was
\* removed.  Uploads are served until the last run has been triggered.
Upload(s, f) ==
    /\ ~uploads[s].exists
    /\ \E r \in Runs : run[r].pc = "idle"
    /\ uploads' = [uploads EXCEPT ![s] = StoreUpload(@, f)]
    /\ UNCHANGED <<clock, workDirs, clipFiles, run, aux>>

\* ---- outcomes of a handler step -------------------------------------------
\* A step of a run yields the run's new record, the working directories and
\* the upload area it leaves behind.
Outcome(rec, dirs, ups) == [rec |-> rec, dirs |-> dirs, ups |-> ups]

\* The clip files after a step of run r: a render that completed (the run's
\* count of clips grew) left clip_i.mp4 in the run's directory, replacing
\* what was at that path; the files of a removed directory are gone.
FilesAfter(r, out) ==
    LET t == run[r].tempDir
        k == run[r].i
        written == IF out.rec.i > k /\ t \in workDirs
                   THEN {f \in clipFiles : ~(f[1] = t /\ f[2] = k)} \cup {<<t, k, r>>}
                   ELSE clipFiles
    IN {f \in written : f[1] \in out.dirs}

Apply(r, out) ==
    /\ run' = [run EXCEPT ![r] = out.rec]
    /\ workDirs' = out.dirs
    /\ uploads' = out.ups
    /\ clipFiles' = FilesAfter(r, out)

\* Runs are numbered in the order their socket events are handled.  Session
\* ids are interchangeable and so is the origin of time: the first run is
\* the one of session s1, triggered at time 0.
MayStart(r, s, t) ==
    /\ run[r].pc = "idle"
    /\ t \in Now
    /\ r = "r1" => (s = "s1" /\ t = 0)
    /\ r = "r2" => run["r1"].pc # "idle"

\* catch (err) { socket.emit("error", { message: err.message }) }
HandlerCatch(rec, msg) == [Emit(rec, ErrorEv(msg)) EXCEPT !.pc = "ended"]

\* socket.emit("finished", ..); fs.rmSync(sessionDir, {recursive, force}).
\* `force` silences only a missing path: any other failure of the removal
\* (rmOk = FALSE) is thrown inside the try block and reaches the catch.
HandlerFinish(rec, dirs, ups, rmOk) ==
    LET fin == Emit(rec, FinishedEv(rec.outputName))
        s == rec.session
    IN IF ups[s].exists /\ ~rmOk
       THEN Outcome(HandlerCatch([fin EXCEPT !.sessionRmFault = TRUE], MsgRm),
                    dirs, ups)
       ELSE Outcome([fin EXCEPT !.pc = "ended"], dirs,
                    [ups EXCEPT ![s] = NoUpload])

\* (faulty variant: the failure handling removes the session's uploads too)
StoryCatchClearsUploads(rec, msg, dirs, ups, rmOk) ==
    LET has == rec.tempDir \in dirs
        e1 == Emit([rec EXCEPT !.failure = msg],
                   ProgressEv("error", NoPct, msg))
    IN IF has /\ ~rmOk
       THEN Outcome(HandlerCatch([e1 EXCEPT !.rmFault = TRUE,
                                            !.catchRmFault = TRUE], MsgRm),
                    dirs, ups)
       ELSE Outcome(HandlerCatch([e1 EXCEPT !.removals =
                                     IF has THEN @ + 1 ELSE @], msg),
                    dirs \ {rec.tempDir}, [ups EXCEPT ![rec.session] = NoUpload])
\* The catch block of createStoryVideo followed by the catch of the handler
\* it rethrows to.  The error that leaves createStoryVideo is the caught one,
\* unless fs.rmSync throws first.
StoryCatch(rec, msg, dirs, ups, rmOk) ==
    LET has == rec.tempDir \in dirs
        e1 == Emit([rec EXCEPT !.failure = msg],
                   ProgressEv("error", NoPct, msg))
    IN IF has /\ ~rmOk
       THEN Outcome(HandlerCatch([e1 EXCEPT !.rmFault = TRUE,
                                            !.catchRmFault = TRUE], MsgRm),
                    dirs, ups)
       ELSE Outcome(HandlerCatch([e1 EXCEPT !.removals =
                                     IF has THEN @ + 1 ELSE @], msg),
                    dirs \ {rec.tempDir}, ups)

\* ---- srtToScenes -------------------------------------------------------------
\* images[index] || images[images.length - 1]: position in the sorted listing
\* of the image of scene i, -1 (undefined) when the listing is empty.
SceneImage(i, m) == IF i < m THEN i ELSE m - 1
\* path.join(imageDir, undefined) throws a TypeError.
SrtToScenesThrows(n, m) == n > 0 /\ m = 0

\* (faulty variant: createImageClip without its existence test)
ImageExistsUntested(u, k) == TRUE
\* fs.existsSync(scene.image): the k-th image of the listing is still there.
ImageExists(u, k) == u.exists /\ u.imageDir /\ k >= 0 /\ k < u.images
\* (faulty variant: step 3 without its existence test)
AudioExistsUntested(u) == TRUE
\* fs.existsSync(audioFilePath)
AudioExists(u) == u.exists /\ u.audio

\* ---- createStoryVideo ----------------------------------------------------------
\* (faulty variant: the render of the following clip is started as well,
\* without awaiting this one)
NextClipUnawaited(rec, dirs, ups, rmOk) ==
    LET e == Emit(rec, ProgressEv("clipping", ClipPercent(rec.i, rec.scenes), ""))
    IN IF ~ImageExists(ups[rec.session], SceneImage(rec.i, rec.images))
       THEN StoryCatch(e, MsgImageNotFound, dirs, ups, rmOk)
       ELSE Outcome([CallEngine(CallEngine(e, "clip", rec.i), "clip", rec.i + 1)
                        EXCEPT !.pc = "clip", !.dirAtCall = rec.tempDir \in dirs],
                    dirs, ups)
\* One iteration of the clip loop up to the await: the progress event, then
\* createImageClip up to ffmpeg().run().
NextClip(rec, dirs, ups, rmOk) ==
    LET e == Emit(rec, ProgressEv("clipping", ClipPercent(rec.i, rec.scenes), ""))
    IN IF ~ImageExists(ups[rec.session], SceneImage(rec.i, rec.images))
       THEN StoryCatch(e, MsgImageNotFound, dirs, ups, rmOk)
       ELSE Outcome([CallEngine(e, "clip", rec.i)
                        EXCEPT !.pc = "clip", !.dirAtCall = rec.tempDir \in dirs],
                    dirs, ups)

\* path.join(outputDir, `clip_${index}.mp4`) with outputDir = path.join(
\* __dirname, 'temp_clips_' + t): an absolute path.
ClipPath(t, index) == [abs |-> TRUE, dir |-> t, clip |-> index]
\* createConcatFile: one line file '<clipPath>' per element of clipPaths, in
\* the order of the array
CreateConcatFile(clipPaths) == [k \in 1..Len(clipPaths) |-> clipPaths[k]]

\* Step 2 up to the await: the progress event, createConcatFile (which writes
\* into tempDir), then ffmpeg().run().
StartConcat(rec, dirs, ups, rmOk) ==
    LET e == Emit(rec, ProgressEv("concatenating", ConcatPercent, ""))
    IN IF rec.tempDir \notin dirs
       THEN StoryCatch(e, MsgWriteConcat, dirs, ups, rmOk)
       ELSE Outcome([CallEngine(e, "concat", rec.scenes)
                        EXCEPT !.pc = "concat", !.dirAtCall = TRUE,
                               !.manifest = CreateConcatFile(rec.clipPaths)],
                    dirs, ups)

\* (faulty variant: the loop leaves one clip out and concatenates early)
LoopStepEarly(rec, dirs, ups, rmOk) ==
    IF rec.i < rec.scenes - 1
    THEN NextClip(rec, dirs, ups, rmOk)
    ELSE StartConcat(rec, dirs, ups, rmOk)
\* for (let i = 0; i < scenesData.length; i++) { .. } then step 2
LoopStep(rec, dirs, ups, rmOk) ==
    IF rec.i < rec.scenes
    THEN NextClip(rec, dirs, ups, rmOk)
    ELSE StartConcat(rec, dirs, ups, rmOk)

\* createStoryVideo from its entry to the first await.
CreateStoryVideo(rec, t, dirs, ups, rmOk) ==
    LET u == ups[rec.session]
        r0 == [rec EXCEPT !.tempDir = t, !.created = t \notin dirs,
                          !.clipPaths = <<>>,
                          !.scenes = u.srt, !.images = u.images, !.i = 0]
        d0 == dirs \cup {t}
        e == Emit(r0, ProgressEv("parsing", NoPct, ""))
    IN IF SrtToScenesThrows(u.srt, u.images)
       THEN StoryCatch(e, MsgPathType, d0, ups, rmOk)
       ELSE LoopStep(e, d0, ups, rmOk)

\* socket.on("start-generation") up to the first await.  The handler and
\* createStoryVideo read Date.now() in the same synchronous stretch: t is the
\* value both get.
StartGeneration(r, s, t, rmOk) ==
    /\ MayStart(r, s, t)
    /\ LET u == uploads[s]
           base == [run[r] EXCEPT !.kind = "story", !.session = s]
           named == [base EXCEPT !.outputName = <<"video", s, t>>]
           started == Emit(named, ProgressEv("starting", NoPct, ""))
       IN Apply(r,
            IF ~(u.exists /\ u.audio)
            THEN Outcome(HandlerCatch(base, MsgAudioDir), workDirs, uploads)
            ELSE IF u.srt < 0
            THEN Outcome(HandlerCatch(base, MsgSrtDir), workDirs, uploads)
            ELSE IF ~u.imageDir
            THEN Outcome(HandlerCatch(base, MsgImagesDir), workDirs, uploads)
            ELSE CreateStoryVideo(started, t, workDirs, uploads, rmOk))
    /\ clock' = t
    /\ UNCHANGED aux

\* (faulty variant: the engine's callbacks reach the run only while the
\* socket that triggered it is connected)
EngineMayWhileConnected(r, ok) ==
    connected[r] /\ (ok => run[r].dirAtCall)
\* The engine writes its output into tempDir (clips, the concatenated stream)
\* or reads its input from it (probe, mux): it opens these files when the call
\* starts and cannot report success when the directory was gone by then.  A
\* directory removed later leaves the open files usable.
EngineMay(r, ok) == ok => run[r].dirAtCall

\* (faulty variant: the error callback resolves too, so the loop goes on)
ClipResolvesAlways(ok) == TRUE
\* .on('end', resolve) / .on('error', reject) of createImageClip
ClipResolves(ok) == ok

\* The engine finishes the clip of scene i.
ClipEnd(r, ok, rmOk) ==
    /\ run[r].pc = "clip"
    /\ EngineMay(r, ok)
    /\ LET rec == [run[r] EXCEPT !.engineFailed = @ \/ ~ok]
       IN Apply(r,
            IF ClipResolves(ok)
            THEN LoopStep([rec EXCEPT !.i = @ + 1,
                                      !.clipPaths = Append(@, ClipPath(rec.tempDir, rec.i))],
                          workDirs, uploads, rmOk)
            ELSE StoryCatch(rec, MsgEngineClip, workDirs, uploads, rmOk))
    /\ UNCHANGED <<clock, aux>>

\* The engine finishes the concatenation; step 3 up to ffprobe in addAudio.
ConcatEnd(r, ok, rmOk) ==
    /\ run[r].pc = "concat"
    /\ EngineMay(r, ok)
    /\ LET rec == [run[r] EXCEPT !.engineFailed = @ \/ ~ok]
           e == Emit(rec, ProgressEv("audio", AudioPercent, ""))
       IN Apply(r,
            IF ~ok
            THEN StoryCatch(rec, MsgEngineConcat, workDirs, uploads, rmOk)
            ELSE IF ~AudioExists(uploads[rec.session])
            THEN StoryCatch(e, MsgAudioNotFound, workDirs, uploads, rmOk)
            ELSE Outcome([CallEngine(e, "probe", 0)
                             EXCEPT !.pc = "probe",
                                    !.dirAtCall = rec.tempDir \in workDirs],
                         workDirs, uploads))
    /\ UNCHANGED <<clock, aux>>

\* ffprobe of the concatenated stream answers; on success the mux starts.
ProbeEnd(r, ok, rmOk) ==
    /\ run[r].pc = "probe"
    /\ EngineMay(r, ok)
    /\ LET rec == [run[r] EXCEPT !.engineFailed = @ \/ ~ok]
       IN Apply(r,
            IF ~ok
            THEN StoryCatch(rec, MsgEngineProbe, workDirs, uploads, rmOk)
            ELSE Outcome([CallEngine(rec, "mux", 0)
                             EXCEPT !.pc = "mux",
                                    !.dirAtCall = rec.tempDir \in workDirs],
                         workDirs, uploads))
    /\ UNCHANGED <<clock, aux>>

\* (faulty variant: fs.rmSync without `force`, which throws on a missing path)
StoryCleanupNoForce(rec, dirs, ups, rmOk, rmOk2, rmSession) ==
    LET e == Emit(rec, ProgressEv("cleanup", CleanupPercent, ""))
        has == rec.tempDir \in dirs
        gone == [e EXCEPT !.removals = @ + 1]
        done == Emit(gone, ProgressEv("done", StoryDonePercent, ""))
    IN IF ~has \/ ~rmOk
       THEN StoryCatch([e EXCEPT !.rmFault = TRUE], MsgRm, dirs, ups, rmOk2)
       ELSE HandlerFinish(done, dirs \ {rec.tempDir}, ups, rmSession)
\* Cleanup of createStoryVideo after the mux, then the rest of the handler.
StoryCleanup(rec, dirs, ups, rmOk, rmOk2, rmSession) ==
    LET e == Emit(rec, ProgressEv("cleanup", CleanupPercent, ""))
        has == rec.tempDir \in dirs
        gone == [e EXCEPT !.removals = IF has THEN @ + 1 ELSE @]
        done == Emit(gone, ProgressEv("done", StoryDonePercent, ""))
    IN IF has /\ ~rmOk
       THEN StoryCatch([e EXCEPT !.rmFault = TRUE], MsgRm, dirs, ups, rmOk2)
       ELSE HandlerFinish(done, dirs \ {rec.tempDir}, ups, rmSession)

\* The engine finishes the mux.
MuxEnd(r, ok, rmOk, rmOk2, rmSession) ==
    /\ run[r].pc = "mux"
    /\ EngineMay(r, ok)
    /\ LET rec == [run[r] EXCEPT !.engineFailed = @ \/ ~ok]
       IN Apply(r,
            IF ~ok
            THEN StoryCatch(rec, MsgEngineMux, workDirs, uploads, rmOk)
            ELSE StoryCleanup(rec, workDirs, uploads, rmOk, rmOk2, rmSession))
    /\ UNCHANGED <<clock, aux>>

\* ---- createMixedVideo ----------------------------------------------------------
\* (faulty variant: the handler without its test of the visual input)
StartMixedGenerationNoVisualTest(r, s, t) ==
    /\ MayStart(r, s, t)
    /\ LET u == uploads[s]
           base == [run[r] EXCEPT !.kind = "mixed", !.session = s]
           named == [base EXCEPT !.outputName = <<"mixed", s, t>>]
           started == Emit(named, ProgressEv("starting", NoPct, ""))
       IN run' = [run EXCEPT ![r] =
            IF ~(u.exists /\ u.audio) THEN HandlerCatch(base, MsgMainAudio)
            ELSE IF ~u.bgAudio THEN HandlerCatch(base, MsgBgAudio)
            ELSE [CallEngine(started, "probe", 0) EXCEPT !.pc = "mixprobe"]]
    /\ clock' = t
    /\ UNCHANGED <<uploads, workDirs, clipFiles, aux>>
\* socket.on("start-mixed-generation") up to ffmpeg.ffprobe(mainAudioPath).
StartMixedGeneration(r, s, t) ==
    /\ MayStart(r, s, t)
    /\ LET u == uploads[s]
           base == [run[r] EXCEPT !.kind = "mixed", !.session = s]
           named == [base EXCEPT !.outputName = <<"mixed", s, t>>]
           started == Emit(named, ProgressEv("starting", NoPct, ""))
       IN run' = [run EXCEPT ![r] =
            IF ~(u.exists /\ u.audio) THEN HandlerCatch(base, MsgMainAudio)
            ELSE IF ~u.bgAudio THEN HandlerCatch(base, MsgBgAudio)
            ELSE IF ~u.visual THEN HandlerCatch(base, MsgVisual)
            ELSE [CallEngine(started, "probe", 0) EXCEPT !.pc = "mixprobe"]]
    /\ clock' = t
    /\ UNCHANGED <<uploads, workDirs, clipFiles, aux>>

\* The callback of ffprobe: reject, or the 'mixing' event and command.run().
MixProbeEnd(r, ok) ==
    /\ run[r].pc = "mixprobe"
    /\ LET rec == [run[r] EXCEPT !.engineFailed = @ \/ ~ok]
           e == Emit(rec, ProgressEv("mixing", AnalyzePercent, ""))
       IN run' = [run EXCEPT ![r] =
            IF ~ok
            THEN HandlerCatch([rec EXCEPT !.failure = MsgProbeMain], MsgProbeMain)
            ELSE [CallEngine(e, "mix", 0) EXCEPT !.pc = "mix"]]
    /\ UNCHANGED <<clock, uploads, workDirs, clipFiles, aux>>

\* The percent values the engine may report in a 'progress' callback.
EnginePercents == {0, 60, 120}

\* .on("progress"): if (progress.percent) onProgress({.., progress: ..})
MixProgress(r, p) ==
    /\ run[r].pc = "mix"
    /\ run[r].ticks < MaxTickEvents
    /\ run' = [run EXCEPT ![r] =
            IF p # 0
            THEN Emit([@ EXCEPT !.ticks = @ + 1],
                      ProgressEv("rendering", RenderPercent(p), ""))
            ELSE @]
    /\ UNCHANGED <<clock, uploads, workDirs, clipFiles, aux>>

\* .on("end") / .on("error") of the mix, then the rest of the handler.
MixEnd(r, ok, rmSession) ==
    /\ run[r].pc = "mix"
    /\ LET rec == [run[r] EXCEPT !.engineFailed = @ \/ ~ok]
           done == Emit(rec, ProgressEv("done", MixedDonePercent, ""))
       IN Apply(r,
            IF ~ok
            THEN Outcome(HandlerCatch([rec EXCEPT !.failure = MsgMixFailed],
                                      MsgMixFailed), workDirs, uploads)
            ELSE HandlerFinish(done, workDirs, uploads, rmSession))
    /\ UNCHANGED <<clock, aux>>

\* ---- the system ------------------------------------------------------------
Next ==
    \/ \E s \in Sessions, f \in UploadForms : Upload(s, f)
    \/ \E r \in Runs, s \in Sessions, t \in 0..MaxClock, rmOk \in BOOLEAN :
          StartGeneration(r, s, t, rmOk)
    \/ \E r \in Runs, ok \in BOOLEAN, rmOk \in BOOLEAN : ClipEnd(r, ok, rmOk)
    \/ \E r \in Runs, ok \in BOOLEAN, rmOk \in BOOLEAN : ConcatEnd(r, ok, rmOk)
    \/ \E r \in Runs, ok \in BOOLEAN, rmOk \in BOOLEAN : ProbeEnd(r, ok, rmOk)
    \/ \E r \in Runs, ok \in BOOLEAN, rmOk \in BOOLEAN, rmOk2 \in BOOLEAN,
          rmSession \in BOOLEAN : MuxEnd(r, ok, rmOk, rmOk2, rmSession)
    \/ \E r \in Runs, s \in Sessions, t \in 0..MaxClock : StartMixedGeneration(r, s, t)
    \/ \E r \in Runs, ok \in BOOLEAN : MixProbeEnd(r, ok)
    \/ \E r \in Runs, p \in EnginePercents : MixProgress(r, p)
    \/ \E r \in Runs, ok \in BOOLEAN, rmSession \in BOOLEAN : MixEnd(r, ok, rmSession)

Spec == Init /\ [][Next]_vars

\* ---- the system with disconnecting clients and an engine that answers --------
\* socket.on("disconnect"): the handler logs and touches nothing.  The socket
\* of a run goes away while the run is in flight.
Disconnect(r) ==
    /\ run[r].pc \notin {"idle", "ended"}
    /\ connected[r]
    /\ connected' = [connected EXCEPT ![r] = FALSE]
    /\ UNCHANGED <<clock, uploads, workDirs, clipFiles, run, calc>>

\* The engine reports the end (or the failure) of the call run r awaits.
EngineReports(r) ==
    \/ \E ok \in BOOLEAN, rmOk \in BOOLEAN : ClipEnd(r, ok, rmOk)
    \/ \E ok \in BOOLEAN, rmOk \in BOOLEAN : ConcatEnd(r, ok, rmOk)
    \/ \E ok \in BOOLEAN, rmOk \in BOOLEAN : ProbeEnd(r, ok, rmOk)
    \/ \E ok \in BOOLEAN, rmOk \in BOOLEAN, rmOk2 \in BOOLEAN,
          rmSession \in BOOLEAN : MuxEnd(r, ok, rmOk, rmOk2, rmSession)
    \/ \E ok \in BOOLEAN : MixProbeEnd(r, ok)
    \/ \E ok \in BOOLEAN, rmSession \in BOOLEAN : MixEnd(r, ok, rmSession)

LiveNext ==
    \/ Next
    \/ \E r \in Runs : Disconnect(r)

\* Every engine call eventually reports completion or failure.
LiveSpec ==
    /\ Init
    /\ [][LiveNext]_vars
    /\ \A r \in Runs : WF_vars(EngineReports(r))

\* ---- srtToScenes and createImageClip on concrete data ------------------------
MaxSegments == 2    \* items parseSRT returned: 0..MaxSegments

\* The time of a timestamp line by its fields hh:mm:ss,mmm.
SrtTime(h, m, s, ms) == [h |-> h, m |-> m, s |-> s, ms |-> ms]
SrtTimes == {SrtTime(0, 0, 0, 0), SrtTime(0, 0, 1, 0), SrtTime(0, 0, 1, 100),
             SrtTime(0, 1, 0, 300)}
\* hours * 3600000 + minutes * 60000 + seconds * 1000 + ms
SrtTimeToMs(t) == t.h * 3600000 + t.m * 60000 + t.s * 1000 + t.ms

Texts == {"a", "b"}
\* the items parseSRT pushes
Segments == [startTime : SrtTimes, endTime : SrtTimes, text : Texts]
SegmentLists == UNION {[1..n -> Segments] : n \in 0..MaxSegments}

\* The files of the images directory: the digits of the name and the
\* extension, as in 1.png, 2.jpg, 10.PNG, 3.txt.
File(stem, ext) == [stem |-> stem, ext |-> ext]
Files == {File(<<1>>, "png"), File(<<2>>, "jpg"), File(<<1, 0>>, "PNG"),
          File(<<3>>, "txt")}
Listings == SUBSET Files

\* /\.(png|jpg|jpeg|webp)$/i
AcceptedExt(e) ==
    e \in {"png", "jpg", "jpeg", "webp", "PNG", "JPG", "JPEG", "WEBP"}

RECURSIVE StemValue(_)
StemValue(d) ==
    IF d = <<>> THEN 0 ELSE 10 * StemValue(SubSeq(d, 1, Len(d) - 1)) + d[Len(d)]

\* a.localeCompare(b, undefined, {numeric: true, sensitivity: 'base'}) < 0:
\* runs of digits compare by their value.
NaturalLess(a, b) == StemValue(a) < StemValue(b)

\* fs.readdirSync(imageDir).filter(..).sort(..)
SortedImages(listing) ==
    LET imgs == {f \in listing : AcceptedExt(f.ext)}
    IN CHOOSE q \in [1..Cardinality(imgs) -> imgs] :
         /\ \A f \in imgs : \E k \in 1..Cardinality(imgs) : q[k] = f
         /\ \A j, k \in 1..Cardinality(imgs) :
              j < k => NaturalLess(q[j].stem, q[k].stem)

\* srtData.map((item, index) => ({image: path.join(imageDir, images[index] ||
\* images[images.length - 1]), start_ms, end_ms, text})); path.join throws on
\* undefined.
SrtToScenes(srtData, listing) ==
    LET images == SortedImages(listing)
        M == Len(images)
    IN IF SrtToScenesThrows(Len(srtData), M)
       THEN [threw |-> TRUE, scenes |-> <<>>]
       ELSE [threw |-> FALSE,
             scenes |-> [k \in 1..Len(srtData) |->
                 [image |-> images[SceneImage(k - 1, M) + 1],
                  start_ms |-> SrtTimeToMs(srtData[k].startTime),
                  end_ms |-> SrtTimeToMs(srtData[k].endTime),
                  text |-> srtData[k].text]]]

\* CROSSFADE_DURATION, in ms
CrossfadeMs == 300
NoFade == <<>>

\* createImageClip up to ffmpeg().run(): the promise is rejected when the
\* image is not there, otherwise the engine is started with -t duration and
\* the fade filters (start and length in ms).  index is 0-based.
CreateImageClip(scene, index, totalScenes, listing) ==
    LET duration == scene.end_ms - scene.start_ms
    IN IF scene.image \notin listing
       THEN [engine |-> FALSE, index |-> index, duration |-> duration,
             fadeIn |-> NoFade, fadeOut |-> NoFade]
       ELSE [engine |-> TRUE, index |-> index, duration |-> duration,
             fadeIn |-> IF index > 0 THEN <<0, CrossfadeMs>> ELSE NoFade,
             fadeOut |-> IF index < totalScenes - 1
                         THEN <<Max(0, duration - CrossfadeMs), CrossfadeMs>>
                         ELSE NoFade]

PlanInit ==
    /\ clock = 0
    /\ uploads = [s \in Sessions |-> NoUpload]
    /\ workDirs = {}
    /\ clipFiles = {}
    /\ run = [r \in Runs |-> IdleRun]
    /\ connected = [r \in Runs |-> TRUE]
    /\ \E d \in SegmentLists, l \in Listings :
         calc = [op |-> "plan", pc |-> "input", srtData |-> d, listing |-> l,
                 threw |-> FALSE, scenes |-> <<>>, clips |-> <<>>]

\* const scenesData = srtToScenes(srtContent, imageDir)
DeriveScenes ==
    /\ calc.op = "plan" /\ calc.pc = "input"
    /\ LET out == SrtToScenes(calc.srtData, calc.listing)
       IN calc' = [calc EXCEPT !.pc = IF out.threw THEN "failed" ELSE "scenes",
                               !.threw = out.threw, !.scenes = out.scenes]
    /\ UNCHANGED <<clock, uploads, workDirs, clipFiles, run, connected>>

\* await createImageClip(scenesData[i], i, scenesData.length, clipPath), for
\* the next i of the loop
RenderClip ==
    /\ calc.op = "plan" /\ calc.pc = "scenes"
    /\ Len(calc.clips) < Len(calc.scenes)
    /\ LET i == Len(calc.clips)
           clip == CreateImageClip(calc.scenes[i + 1], i, Len(calc.scenes),
                                   calc.listing)
       IN calc' = [calc EXCEPT !.clips = Append(@, clip),
                               !.pc = IF clip.engine THEN "scenes" ELSE "failed"]
    /\ UNCHANGED <<clock, uploads, workDirs, clipFiles, run, connected>>

PlanNext ==
    \/ DeriveScenes
    \/ RenderClip

PlanSpec == PlanInit /\ [][PlanNext]_vars

\* ---- the background volume of a mix --------------------------------------------
MaxVolume == 100      \* a number sent as bgVolume: 0..MaxVolume hundredths
MaxVolumeChars == 3   \* a string sent as bgVolume has at most that many characters

\* Numbers are exact rationals num/den; NaN is not a number.
Rat(n, d) == [nan |-> FALSE, num |-> n, den |-> d]
NaN == [nan |-> TRUE, num |-> 0, den |-> 1]
RatEq(a, b) == ~a.nan /\ ~b.nan /\ a.num * b.den = b.num * a.den

\* What the trigger may carry as data.bgVolume: nothing, a number, or a
\* string (the client sends the value of its input element).
VolumeChars == {"0", "5", ".", "x"}
DigitOf(c) == IF c = "5" THEN 5 ELSE 0
IsDigit(c) == c \in {"0", "5"}
VolumeRequests ==
    {[kind |-> "undefined"]}
        \cup {[kind |-> "number", value |-> Rat(v, 100)] : v \in 0..MaxVolume}
        \cup {[kind |-> "string", chars |-> c] :
                 c \in UNION {[1..n -> VolumeChars] : n \in 0..MaxVolumeChars}}

\* the length of the longest prefix of s made of digits
RECURSIVE DigitPrefix(_)
DigitPrefix(s) ==
    IF s # <<>> /\ IsDigit(s[1]) THEN 1 + DigitPrefix(Tail(s)) ELSE 0
RECURSIVE DigitsValue(_)
DigitsValue(s) ==
    IF s = <<>> THEN 0
    ELSE 10 * DigitsValue(SubSeq(s, 1, Len(s) - 1)) + DigitOf(s[Len(s)])
RECURSIVE Pow10(_)
Pow10(n) == IF n = 0 THEN 1 ELSE 10 * Pow10(n - 1)

\* parseFloat of a string: the value of the longest prefix that is a decimal
\* literal (digits, optionally a point and digits, one digit at least), NaN
\* when there is none.
ParseFloatString(s) ==
    LET a == DigitPrefix(s)
        rest == SubSeq(s, a + 1, Len(s))
        b == IF rest # <<>> /\ rest[1] = "." THEN DigitPrefix(Tail(rest)) ELSE 0
    IN IF a + b = 0 THEN NaN
       ELSE Rat(DigitsValue(SubSeq(s, 1, a)) * Pow10(b)
                    + DigitsValue(SubSeq(s, a + 2, a + 1 + b)),
                Pow10(b))
\* parseFloat(bgVolume): undefined reads as "undefined", a number as its own
\* decimal representation
ParseFloat(x) ==
    IF x.kind = "undefined" THEN NaN
    ELSE IF x.kind = "number" THEN x.value
    ELSE ParseFloatString(x.chars)

\* the default of both the handler and createMixedVideo: 0.3
DefaultBgVolume == Rat(3, 10)
\* a || b on numbers: NaN and 0 are falsy
OrElse(a, b) == IF a.nan \/ a.num = 0 THEN b ELSE a
\* bgVolume: parseFloat(bgVolume) || 0.3
HandlerBgVolume(x) == OrElse(ParseFloat(x), DefaultBgVolume)
\* const { .., bgVolume = 0.3, .. } = options: the handler always passes a
\* number, the value that ends up in `[2:a]volume=${bgVolume}[bg]`
MixBgVolume(x) == HandlerBgVolume(x)

VolumeInit ==
    /\ clock = 0
    /\ uploads = [s \in Sessions |-> NoUpload]
    /\ workDirs = {}
    /\ clipFiles = {}
    /\ run = [r \in Runs |-> IdleRun]
    /\ connected = [r \in Runs |-> TRUE]
    /\ \E x \in VolumeRequests :
         calc = [op |-> "volume", pc |-> "requested", requested |-> x,
                 handed |-> NaN]

\* the handler's call of createMixedVideo up to the filter of the command
HandVolume ==
    /\ calc.op = "volume" /\ calc.pc = "requested"
    /\ calc' = [calc EXCEPT !.pc = "handed", !.handed = MixBgVolume(calc.requested)]
    /\ UNCHANGED <<clock, uploads, workDirs, clipFiles, run, connected>>

VolumeNext == HandVolume

VolumeSpec == VolumeInit /\ [][VolumeNext]_vars

\* ---- timestamps as text: parseSRT's normalisation and srtTimeToMs ---------------
MaxHours == 11      \* the hours field of a timestamp: 0..MaxHours

\* the decimal digits, as characters
DigitChars == <<"0", "1", "2", "3", "4", "5", "6", "7", "8", "9">>
IsDigitChar(c) == \E k \in 1..10 : DigitChars[k] = c
CharDigit(c) == (CHOOSE k \in 1..10 : DigitChars[k] = c) - 1

\* n written with w digits, zero-padded on the left
RECURSIVE Pad(_, _)
Pad(n, w) ==
    IF w = 0 THEN <<>> ELSE Append(Pad(n \div 10, w - 1), DigitChars[(n % 10) + 1])

\* The timestamps the pattern \d{1,2}:\d{2}:\d{2}[.,]\d{3} matches, by their
\* fields: hours in one or two digits, the separator a comma or a point.
MinuteValues == {0, 7, 59}
SecondValues == {0, 9, 59}
MillisValues == {0, 5, 300, 999}
TimeFields ==
    {[h |-> h, hw |-> hw, m |-> m, s |-> s, ms |-> ms, sep |-> sep] :
        h \in 0..MaxHours, hw \in {1, 2}, m \in MinuteValues,
        s \in SecondValues, ms \in MillisValues, sep \in {",", "."}}
MatchedTimes == {f \in TimeFields : f.hw = 1 => f.h < 10}
TimeText(f) ==
    Pad(f.h, f.hw) \o <<":">> \o Pad(f.m, 2) \o <<":">> \o Pad(f.s, 2)
        \o <<f.sep>> \o Pad(f.ms, 3)

RECURSIVE ReplacePoint(_)
\* (faulty variant: the matched text is stored as it is)
ReplacePointKept(str) == str
\* timeMatch[1].replace('.', ','): the first point becomes a comma
ReplacePoint(str) ==
    IF str = <<>> THEN <<>>
    ELSE IF str[1] = "." THEN <<",">> \o Tail(str)
    ELSE <<str[1]>> \o ReplacePoint(Tail(str))

\* timeStr.split(/[:,]/)
RECURSIVE SplitTime(_)
SplitTime(str) ==
    IF \A k \in 1..Len(str) : str[k] \notin {":", ","} THEN <<str>>
    ELSE LET p == CHOOSE k \in 1..Len(str) :
                    /\ str[k] \in {":", ","}
                    /\ \A j \in 1..(k - 1) : str[j] \notin {":", ","}
         IN <<SubSeq(str, 1, p - 1)>> \o SplitTime(SubSeq(str, p + 1, Len(str)))

\* parseInt: the value of the leading digits; NaN (here -1) when there is
\* none, as for a missing part
NotANumber == 0 - 1
RECURSIVE LeadingDigits(_)
LeadingDigits(str) ==
    IF str # <<>> /\ IsDigitChar(str[1])
    THEN <<str[1]>> \o LeadingDigits(Tail(str))
    ELSE <<>>
RECURSIVE DecimalValue(_)
DecimalValue(d) ==
    IF d = <<>> THEN 0
    ELSE 10 * DecimalValue(SubSeq(d, 1, Len(d) - 1)) + CharDigit(d[Len(d)])
ParseInt(str) ==
    IF LeadingDigits(str) = <<>> THEN NotANumber
    ELSE DecimalValue(LeadingDigits(str))
PartOf(parts, k) == IF k <= Len(parts) THEN parts[k] ELSE <<>>

\* srtTimeToMs on the text of a timestamp; any NaN makes the sum NaN
SrtTimeTextToMs(timeStr) ==
    LET parts == SplitTime(timeStr)
        v == [k \in 1..4 |-> ParseInt(PartOf(parts, k))]
    IN IF \E k \in 1..4 : v[k] = NotANumber THEN NotANumber
       ELSE v[1] * 3600000 + v[2] * 60000 + v[3] * 1000 + v[4]

TimeInit ==
    /\ clock = 0
    /\ uploads = [s \in Sessions |-> NoUpload]
    /\ workDirs = {}
    /\ clipFiles = {}
    /\ run = [r \in Runs |-> IdleRun]
    /\ connected = [r \in Runs |-> TRUE]
    /\ \E f \in MatchedTimes :
         calc = [op |-> "time", pc |-> "matched", fields |-> f,
                 text |-> TimeText(f), stored |-> <<>>, value |-> NotANumber]

\* parseSRT stores the matched timestamp, srtToScenes converts it
ConvertTime ==
    /\ calc.op = "time" /\ calc.pc = "matched"
    /\ LET stored == ReplacePoint(calc.text)
       IN calc' = [calc EXCEPT !.pc = "converted", !.stored = stored,
                               !.value = SrtTimeTextToMs(stored)]
    /\ UNCHANGED <<clock, uploads, workDirs, clipFiles, run, connected>>

TimeNext == ConvertTime

TimeSpec == TimeInit /\ [][TimeNext]_vars

\* ---- parseSRT on the text of a subtitle file -----------------------------------
MaxLines == 5       \* lines of the subtitle text: 0..MaxLines

\* The characters of the text: "N" a newline, "S" a blank, "x" any other
\* character, "T" and "U" two different texts the timestamp pattern
\* /(\d{1,2}:\d{2}:\d{2}[.,]\d{3}) --> (..)/ matches.
IsSpace(c) == c \in {"N", "S"}
IsTimePair(c) == c \in {"T", "U"}
LineShapes == {<<>>, <<"S">>, <<"x">>, <<"T">>, <<"U">>, <<"S", "T">>}
LineLists == UNION {[1..n -> LineShapes] : n \in 0..MaxLines}
\* the lines with a newline between them
RECURSIVE JoinLines(_)
JoinLines(ls) ==
    IF ls = <<>> THEN <<>>
    ELSE IF Len(ls) = 1 THEN ls[1]
    ELSE ls[1] \o <<"N">> \o JoinLines(Tail(ls))

\* data.trim()
RECURSIVE TrimStart(_)
TrimStart(str) ==
    IF str # <<>> /\ IsSpace(str[1]) THEN TrimStart(Tail(str)) ELSE str
RECURSIVE TrimEnd(_)
TrimEnd(str) ==
    IF str # <<>> /\ IsSpace(str[Len(str)])
    THEN TrimEnd(SubSeq(str, 1, Len(str) - 1))
    ELSE str
Trim(str) == TrimEnd(TrimStart(str))

\* A match of /\n\s*\n/ that starts at p ends at the last newline that only
\* white space separates from p (\s* is greedy); 0 when there is none.
SeparatorEnd(str, p) ==
    LET ends == {q \in (p + 1)..Len(str) :
                    /\ str[q] = "N"
                    /\ \A j \in (p + 1)..(q - 1) : IsSpace(str[j])}
    IN IF str[p] # "N" \/ ends = {} THEN 0
       ELSE CHOOSE q \in ends : \A o \in ends : o <= q
\* .split(/\n\s*\n/)
RECURSIVE SplitBlocks(_)
SplitBlocks(str) ==
    LET starts == {p \in 1..Len(str) : SeparatorEnd(str, p) # 0}
    IN IF starts = {} THEN <<str>>
       ELSE LET p == CHOOSE a \in starts : \A b \in starts : a <= b
            IN <<SubSeq(str, 1, p - 1)>>
                   \o SplitBlocks(SubSeq(str, SeparatorEnd(str, p) + 1, Len(str)))
\* block.split('\n')
RECURSIVE SplitLines(_)
SplitLines(str) ==
    IF \A k \in 1..Len(str) : str[k] # "N" THEN <<str>>
    ELSE LET p == CHOOSE k \in 1..Len(str) :
                    str[k] = "N" /\ \A j \in 1..(k - 1) : str[j] # "N"
         IN <<SubSeq(str, 1, p - 1)>> \o SplitLines(SubSeq(str, p + 1, Len(str)))

\* line.match(..): the first text of the line the pattern matches, <<>> for
\* null
TimeMatch(line) ==
    IF \A k \in 1..Len(line) : ~IsTimePair(line[k]) THEN <<>>
    ELSE <<line[CHOOSE k \in 1..Len(line) :
                   IsTimePair(line[k]) /\ \A j \in 1..(k - 1) : ~IsTimePair(line[j])]>>

\* (faulty variant: the timestamps are looked for in the first line)
TimestampLineFirst(lines) == lines[1]
\* lines[1], the second line of the block
TimestampLine(lines) == lines[2]

\* the body of the loop: the segments one block contributes
BlockSegments(block) ==
    LET lines == SplitLines(block)
    IN IF Len(lines) >= 2 /\ TimeMatch(TimestampLine(lines)) # <<>>
       THEN << [time |-> TimeMatch(TimestampLine(lines))[1],
                text |-> JoinLines(SubSeq(lines, 3, Len(lines)))] >>
       ELSE <<>>
RECURSIVE AllSegments(_)
AllSegments(blocks) ==
    IF blocks = <<>> THEN <<>>
    ELSE BlockSegments(blocks[1]) \o AllSegments(Tail(blocks))
ParseSRT(data) == AllSegments(SplitBlocks(Trim(data)))

ParseInit ==
    /\ clock = 0
    /\ uploads = [s \in Sessions |-> NoUpload]
    /\ workDirs = {}
    /\ clipFiles = {}
    /\ run = [r \in Runs |-> IdleRun]
    /\ connected = [r \in Runs |-> TRUE]
    /\ \E ls \in LineLists :
         calc = [op |-> "parse", pc |-> "read", lines |-> ls,
                 data |-> JoinLines(ls), segments |-> <<>>]

\* const srtData = parseSRT(srtContent)
ParseFile ==
    /\ calc.op = "parse" /\ calc.pc = "read"
    /\ calc' = [calc EXCEPT !.pc = "parsed", !.segments = ParseSRT(calc.data)]
    /\ UNCHANGED <<clock, uploads, workDirs, clipFiles, run, connected>>

ParseNext == ParseFile

ParseSpec == ParseInit /\ [][ParseNext]_vars

\* ---- vocabulary of the scene-plan properties ----------------------------------
Derived == calc.op = "plan" /\ calc.pc # "input"
\* the files of the listing srtToScenes accepts as images
ImagesOf(listing) == {f \in listing : AcceptedExt(f.ext)}
\* how many images of the listing come before f in the natural order
Rank(f, listing) ==
    Cardinality({g \in ImagesOf(listing) : StemValue(g.stem) < StemValue(f.stem)})
\* scene k (counted from 1) uses the k-th image, or the last one when the
\* images ran out
UsesImageOrLast(k) ==
    LET M == Cardinality(ImagesOf(calc.listing))
        img == calc.scenes[k].image
    IN /\ img \in ImagesOf(calc.listing)
       /\ Rank(img, calc.listing) = IF k <= M THEN k - 1 ELSE M - 1

\* ---- vocabulary of the properties -----------------------------------------
Started(r) == run[r].pc # "idle"
Ended(r) == run[r].pc = "ended"
InFlight(r) == Started(r) /\ ~Ended(r)
IsStory(r) == run[r].kind = "story"
IsMixed(r) == run[r].kind = "mixed"
\* createStoryVideo was entered: the run has a working directory name.
HasWorkDir(r) == run[r].tempDir # NoDir

IsTerminal(e) == e.type \in {"finished", "error"}
Terminals(r) == SelectSeq(run[r].events, IsTerminal)
HasEvent(r, type, status) ==
    \E k \in 1..Len(run[r].events) :
        run[r].events[k].type = type /\ run[r].events[k].status = status
Finished(r) == HasEvent(r, "finished", "")

\* The percent values of a run's progress events never decrease, in
\* emission order.  An event without a `progress` property has no value.
PercentMonotone(r) ==
    LET ev == run[r].events
    IN \A j, k \in 1..Len(ev) :
         ( /\ j < k
           /\ ev[j].type = "progress" /\ ev[j].pct.has
           /\ ev[k].type = "progress" /\ ev[k].pct.has )
         => PctLeq(ev[j].pct, ev[k].pct)

\* C1: two story runs that are in flight at the same time have different
\* working directories.
C1_DistinctWorkDirs ==
    \A r1, r2 \in Runs :
        ( /\ r1 # r2
          /\ HasWorkDir(r1) /\ InFlight(r1)
          /\ HasWorkDir(r2) /\ InFlight(r2) )
        => run[r1].tempDir # run[r2].tempDir

\* C2: a story run whose subtitle input yields zero segments makes no
\* encoding-engine call, and ends with an error terminal event.
C2_EmptyFailsBeforeEngine ==
    \A r \in Runs :
        (HasWorkDir(r) /\ run[r].scenes = 0)
        => /\ run[r].calls = <<>>
           /\ Ended(r) => /\ Len(Terminals(r)) = 1
                          /\ Terminals(r)[1].type = "error"

\* C3: every run emits exactly one terminal event: never more than one, and
\* one once its handler has returned.
C3_OneTerminal ==
    \A r \in Runs :
        /\ Len(Terminals(r)) <= 1
        /\ Ended(r) => Len(Terminals(r)) = 1

\* C4: in a story run the percent values of the progress events are
\* non-decreasing in emission order, wherever the run fails.
C4_StoryPercentMonotone ==
    \A r \in Runs : IsStory(r) => PercentMonotone(r)

\* A story run of MaxScenes scenes that rendered every clip, concatenated,
\* announced the audio stage and then failed.
C4_Witness ==
    \E r \in Runs :
        /\ IsStory(r) /\ Ended(r)
        /\ run[r].scenes = MaxScenes /\ run[r].scenes >= 2
        /\ HasEvent(r, "progress", "audio")
        /\ HasEvent(r, "progress", "error")

\* C5: in a mixed-media run the percent values of the progress events are
\* non-decreasing in emission order, whatever percent the engine reports.
C5_MixedPercentMonotone ==
    \A r \in Runs : IsMixed(r) => PercentMonotone(r)

\* C6: in a run that emitted `finished`, the last progress event before it
\* carries percent 100 and no progress event follows it.
C6_FinalPercent100 ==
    \A r \in Runs :
        LET ev == run[r].events
        IN \A k \in 1..Len(ev) :
             ev[k].type = "finished"
             => /\ \A j \in (k + 1)..Len(ev) : ev[j].type # "progress"
                /\ \E j \in 1..(k - 1) :
                     /\ ev[j].type = "progress"
                     /\ ev[j].pct.has /\ PctEq(ev[j].pct, Pct(100, 1))
                     /\ \A m \in (j + 1)..(k - 1) : ev[m].type # "progress"

\* A story run and a mixed-media run have both emitted `finished`.
C6_Witness ==
    \E r1, r2 \in Runs :
        /\ IsStory(r1) /\ Finished(r1) /\ Ended(r1)
        /\ IsMixed(r2) /\ Finished(r2) /\ Ended(r2)

\* No fs.rmSync of a working directory has failed so far.
NoWorkDirRmFault == \A r \in Runs : ~run[r].rmFault

\* C7: the working directory a story run created is removed exactly once,
\* on the run's terminal transition, and does not exist afterwards (stated
\* for the runs in which no removal was refused by the file system).
C7_WorkDirRemovedOnceAtEnd ==
    \A r \in Runs :
        (run[r].created /\ NoWorkDirRmFault)
        => /\ InFlight(r) => run[r].tempDir \in workDirs
           /\ Ended(r) => /\ run[r].tempDir \notin workDirs
                          /\ run[r].removals = 1

\* C8: any two runs are given different output file names.
C8_DistinctOutputNames ==
    \A r1, r2 \in Runs :
        ( /\ r1 # r2
          /\ run[r1].outputName # NoFile
          /\ run[r2].outputName # NoFile )
        => run[r1].outputName # run[r2].outputName

\* C9: once an engine call of a run has reported failure, the run starts no
\* further engine call.
C9_NoCallAfterFailure ==
    [][\A r \in Runs : run[r].engineFailed => run'[r].calls = run[r].calls]_vars

\* A run ended after its third or later engine call reported failure, while
\* the other run is still in flight.
C9_Witness ==
    \E r, q \in Runs :
        /\ run[r].engineFailed /\ Ended(r) /\ Len(run[r].calls) >= 3
        /\ InFlight(q)

\* C10: when a stage failed and the removal of the working directory in the
\* failure handling failed too, the run ends with one error terminal event
\* that carries the message of the stage failure.
C10_StageMessageSurvives ==
    \A r \in Runs :
        (Ended(r) /\ run[r].catchRmFault)
        => /\ Len(Terminals(r)) = 1
           /\ Terminals(r)[1].type = "error"
           /\ Terminals(r)[1].msg = run[r].failure

\* C11: a scene whose duration end_ms - start_ms is zero or negative is
\* rejected: the engine is never started for it.
C11_ZeroDurationRejected ==
    calc.op = "plan"
    => \A k \in 1..Len(calc.clips) :
         calc.clips[k].engine => calc.clips[k].duration > 0

\* C12: for S >= 1 segments and M < S images, scene derivation does not fail,
\* scene i uses the i-th naturally sorted image when i < M and every scene
\* with i >= M uses the last image of the sorted list.
C12_FewerImagesFallback ==
    ( /\ Derived
      /\ Len(calc.srtData) >= 1
      /\ Cardinality(ImagesOf(calc.listing)) < Len(calc.srtData) )
    => /\ ~calc.threw
       /\ Len(calc.scenes) = Len(calc.srtData)
       /\ \A k \in 1..Len(calc.scenes) : UsesImageOrLast(k)

\* C13: for every subtitle input and every image listing the number of
\* derived scenes equals the number of parsed segments, and scene k carries
\* the start time, end time and text of segment k; images beyond the number
\* of segments are not used.
C13_SceneCountAndOrder ==
    Derived
    => /\ ~calc.threw
       /\ Len(calc.scenes) = Len(calc.srtData)
       /\ \A k \in 1..Len(calc.scenes) :
            LET seg == calc.srtData[k]
                sc == calc.scenes[k]
            IN /\ sc.start_ms = ((seg.startTime.h * 60 + seg.startTime.m) * 60
                                 + seg.startTime.s) * 1000 + seg.startTime.ms
               /\ sc.end_ms = ((seg.endTime.h * 60 + seg.endTime.m) * 60
                               + seg.endTime.s) * 1000 + seg.endTime.ms
               /\ sc.text = seg.text
               /\ Rank(sc.image, calc.listing) < Len(calc.srtData)

\* the clip renders a run has started, in the order of their start
IsClipCall(c) == c[1] = "clip"
ClipCalls(r) == SelectSeq(run[r].calls, IsClipCall)

\* C14: within a story run at most one clip render is in progress: the k-th
\* render started is the one of clip k, and it is started only when the
\* renders of all clips before it have reported completion (run[r].i counts
\* the completed clips).
C14_OneClipAtATime ==
    \A r \in Runs :
        /\ Len(ClipCalls(r)) <= run[r].i + 1
        /\ \A k \in 1..Len(ClipCalls(r)) : ClipCalls(r)[k][2] = k - 1

\* Two story runs are each rendering their second clip.
C14_Witness ==
    \A r \in Runs :
        /\ run[r].pc = "clip" /\ run[r].i = 1
        /\ Len(ClipCalls(r)) = 2

\* the stages a story run announced, in order: its progress events but the
\* handler's 'starting' and the 'error' of a failure
IsStageEv(e) == e.type = "progress" /\ e.status \notin {"starting", "error"}
StageEvents(r) == SelectSeq(run[r].events, IsStageEv)
IsProgressEv(e) == e.type = "progress"
ProgressEvents(r) == SelectSeq(run[r].events, IsProgressEv)
IsPrefix(a, b) == Len(a) <= Len(b) /\ \A k \in 1..Len(a) : a[k] = b[k]
\* Parsing, Synthesizing(1/N) .. Synthesizing(N/N), Concatenating, Muxing,
\* Cleanup, Done
ExpectedStages(n) ==
    <<"parsing">> \o [k \in 1..n |-> "clipping"]
                  \o <<"concatenating", "audio", "cleanup", "done">>
ExpectedCalls(n) ==
    [k \in 1..n |-> <<"clip", k - 1>>]
        \o << <<"concat", n>>, <<"probe", 0>>, <<"mux", 0>> >>
HasCall(r, op) == \E k \in 1..Len(run[r].calls) : run[r].calls[k][1] = op

\* C15: a story run moves through its stages in the order Parsing,
\* Synthesizing(1/N) .. Synthesizing(N/N), Concatenating, Muxing, Cleanup,
\* Done: the concatenation starts only after all N clips completed, the mux
\* only after the concatenation completed, and the only other way out of a
\* stage is the failure, after which no stage follows.
C15_StageOrder ==
    \A r \in Runs :
        HasWorkDir(r)
        => LET N == run[r].scenes
               st == StageEvents(r)
               pr == ProgressEvents(r)
           IN /\ IsPrefix([k \in 1..Len(st) |-> st[k].status], ExpectedStages(N))
              /\ \A k \in 2..Len(st) :
                   st[k].status = "clipping" => st[k].pct = ClipPercent(k - 2, N)
              /\ IsPrefix(run[r].calls, ExpectedCalls(N))
              /\ HasCall(r, "concat") => run[r].i = N
              /\ HasCall(r, "mux") => HasEvent(r, "progress", "audio")
              /\ HasEvent(r, "progress", "concatenating") => run[r].i = N
              /\ HasEvent(r, "progress", "cleanup") => Len(run[r].calls) = N + 3
              /\ \A k \in 1..Len(pr) :
                   pr[k].status = "error" => (k = Len(pr) /\ Ended(r))

\* One story run of two scenes went through every stage to Done, another one
\* failed after its concatenation.
C15_Witness ==
    \E r, q \in Runs :
        /\ IsStory(r) /\ run[r].scenes = 2 /\ HasEvent(r, "progress", "done")
        /\ IsStory(q) /\ HasEvent(q, "progress", "audio")
        /\ HasEvent(q, "progress", "error")

\* C16: every started run eventually reaches Done or Failed, provided every
\* engine call eventually reports; a disconnect of the run's socket while
\* the run is in flight leaves the run, the working directories and the
\* uploads as they are.
C16_RunTerminates ==
    /\ \A r \in Runs : Started(r) ~> Ended(r)
    /\ [][(connected' # connected)
          => (run' = run /\ workDirs' = workDirs /\ uploads' = uploads)]_vars

\* A story run and a mixed-media run whose sockets disconnected while they
\* were in flight have both emitted `finished`.
C16_Witness ==
    \E r, q \in Runs :
        /\ ~connected[r] /\ IsStory(r) /\ Ended(r) /\ Finished(r)
        /\ ~connected[q] /\ IsMixed(q) /\ Ended(q) /\ Finished(q)

\* C17: if the image file of scene i does not exist when its clip is to be
\* rendered, the story run fails: the engine is not invoked for scene i (a
\* step starts the render of a clip only if the scene's image is in the
\* upload area), and a run that failed this way has rendered only the scenes
\* before i, started no concatenation and no mux, and emitted no `finished`.
C17_MissingImageFailsRun ==
    /\ [](\A r \in Runs :
            run[r].failure = MsgImageNotFound
            => /\ Ended(r) /\ ~Finished(r)
               /\ Len(Terminals(r)) = 1 /\ Terminals(r)[1].type = "error"
               /\ run[r].i < run[r].scenes
               /\ run[r].calls = [k \in 1..run[r].i |-> <<"clip", k - 1>>])
    /\ [][\A r \in Runs :
            ( /\ Len(run'[r].calls) = Len(run[r].calls) + 1
              /\ run'[r].calls[Len(run'[r].calls)][1] = "clip" )
            => LET i == run'[r].calls[Len(run'[r].calls)][2]
                   M == run'[r].images
                   u == uploads[run'[r].session]
               IN /\ u.exists /\ u.imageDir
                  /\ (IF i < M THEN i ELSE M - 1) \in 0..(u.images - 1)]_vars

\* A story run rendered its first clip and failed on the missing image of
\* its second scene.
C17_Witness ==
    \E r \in Runs :
        /\ run[r].failure = MsgImageNotFound
        /\ run[r].i = 1 /\ run[r].calls = << <<"clip", 0>> >>
        /\ Ended(r)

\* the run record ended with exactly one terminal event, an `error`, and
\* without a call of the mix
FailedBeforeMix(rec) ==
    /\ rec.pc = "ended"
    /\ Len(SelectSeq(rec.events, IsTerminal)) = 1
    /\ SelectSeq(rec.events, IsTerminal)[1].type = "error"
    /\ \A k \in 1..Len(rec.calls) : rec.calls[k][1] # "mix"

\* C18: in the mixed-media path, a trigger that finds the visual input or
\* either audio input missing, and a failing duration probe of the
\* foreground track, end the run with an `error` terminal event and without
\* a call of the mix; such a run never calls the mix later.
C18_MixedFailsBeforeMix ==
    /\ [][\A r \in Runs :
            ( /\ run[r].pc = "idle" /\ run'[r].kind = "mixed"
              /\ LET u == uploads[run'[r].session]
                 IN ~(u.exists /\ u.audio /\ u.bgAudio /\ u.visual) )
            => FailedBeforeMix(run'[r])]_vars
    /\ [][\A r \in Runs :
            ( /\ run[r].pc = "mixprobe"
              /\ ~run[r].engineFailed /\ run'[r].engineFailed )
            => FailedBeforeMix(run'[r])]_vars
    /\ [](\A r \in Runs : (IsMixed(r) /\ Ended(r) /\ ~Finished(r)
                             /\ run[r].failure # MsgMixFailed)
                          => FailedBeforeMix(run[r]))

\* One mixed-media run was refused for its missing visual input, the other
\* ended on the failure of the probe of the main audio.
C18_Witness ==
    \E r, q \in Runs :
        /\ IsMixed(r) /\ Ended(r) /\ Terminals(r)[1].msg = MsgVisual
        /\ IsMixed(q) /\ Ended(q) /\ run[q].failure = MsgProbeMain

\* C19: every progress event emitted on a run's channel (the 'starting' and
\* 'parsing' events, the ticks and the events of a failure included) carries
\* a percent value, and the value lies in [0, 100].
C19_PercentInRange ==
    \A r \in Runs :
        \A k \in 1..Len(run[r].events) :
            LET e == run[r].events[k]
            IN e.type = "progress"
               => /\ e.pct.has
                  /\ PctLeq(Pct(0, 1), e.pct)
                  /\ PctLeq(e.pct, Pct(100, 1))

\* the string is a decimal literal from its first to its last character
IsDecimalLiteral(s) ==
    /\ \E k \in 1..Len(s) : IsDigit(s[k])
    /\ \A k \in 1..Len(s) : IsDigit(s[k]) \/ s[k] = "."
    /\ Cardinality({k \in 1..Len(s) : s[k] = "."}) <= 1
\* the request carries a number, as a number or written out in a string
IsNumericRequest(x) ==
    \/ x.kind = "number"
    \/ x.kind = "string" /\ IsDecimalLiteral(x.chars)

\* C20: the background volume handed to the mix equals the requested value
\* for every numeric requested value (0 included), and is 0.3 only when no
\* value is supplied (or 0.3 itself was requested).
C20_VolumeAsRequested ==
    (calc.op = "volume" /\ calc.pc = "handed")
    => /\ IsNumericRequest(calc.requested)
          => RatEq(calc.handed, ParseFloat(calc.requested))
       /\ (RatEq(calc.handed, Rat(3, 10)) /\ IsNumericRequest(calc.requested))
          => RatEq(ParseFloat(calc.requested), Rat(3, 10))

\* C21: for every timestamp HH:MM:SS,mmm or HH:MM:SS.mmm the parser accepts,
\* the converted value is hours*3600000 + minutes*60000 + seconds*1000 +
\* millis, whichever of the two separators is written.
C21_TimeToMs ==
    (calc.op = "time" /\ calc.pc = "converted")
    => calc.value = calc.fields.h * 3600000 + calc.fields.m * 60000
                        + calc.fields.s * 1000 + calc.fields.ms

\* A timestamp with a one-digit hour, zero-padded fields and the point as
\* separator was converted.
C21_Witness ==
    /\ calc.op = "time" /\ calc.pc = "converted"
    /\ calc.text = <<"9", ":", "0", "7", ":", "0", "9", ".", "0", "0", "5">>
    /\ calc.value = 32829005

\* a line that holds nothing but blanks
IsBlankLine(line) == \A k \in 1..Len(line) : line[k] = "S"
\* Line k opens a block: it is not blank and no line or a blank line comes
\* before it.
OpensBlock(ls, k) ==
    ~IsBlankLine(ls[k]) /\ (k = 1 \/ IsBlankLine(ls[k - 1]))
\* the last line of the block that line k opens
BlockEnd(ls, k) ==
    CHOOSE e \in k..Len(ls) :
        /\ \A j \in k..e : ~IsBlankLine(ls[j])
        /\ e = Len(ls) \/ IsBlankLine(ls[e + 1])
\* Line k opens a block whose second line holds a timestamp pair.
OpensValidBlock(ls, k) ==
    /\ OpensBlock(ls, k)
    /\ BlockEnd(ls, k) > k
    /\ \E j \in 1..Len(ls[k + 1]) : IsTimePair(ls[k + 1][j])
\* the segment expected of the valid block that line k opens: the first
\* timestamp pair of its second line, and its further lines as the text
ExpectedSegment(ls, k) ==
    LET second == ls[k + 1]
        first == CHOOSE j \in 1..Len(second) :
                     IsTimePair(second[j]) /\ \A i \in 1..(j - 1) : ~IsTimePair(second[i])
    IN [time |-> second[first],
        text |-> JoinLines(SubSeq(ls, k + 2, BlockEnd(ls, k)))]
\* the lines that open a valid block, in input order
RECURSIVE ValidOpeners(_, _)
ValidOpeners(ls, k) ==
    IF k > Len(ls) THEN <<>>
    ELSE (IF OpensValidBlock(ls, k) THEN <<k>> ELSE <<>>) \o ValidOpeners(ls, k + 1)

\* C22: for every input the parser returns, in input order, exactly one
\* segment per block whose second line holds a valid timestamp pair, skips
\* every other block, and returns the empty list for an input that is empty
\* or holds no such block.
C22_OneSegmentPerValidBlock ==
    (calc.op = "parse" /\ calc.pc = "parsed")
    => LET open == ValidOpeners(calc.lines, 1)
       IN /\ Len(calc.segments) = Len(open)
          /\ \A n \in 1..Len(open) :
               calc.segments[n] = ExpectedSegment(calc.lines, open[n])
          /\ (\A k \in 1..Len(calc.data) : ~IsTimePair(calc.data[k]))
             => calc.segments = <<>>

\* Two valid blocks separated by a line of blanks gave two segments in input
\* order.
C22_Witness ==
    /\ calc.op = "parse" /\ calc.pc = "parsed"
    /\ Len(calc.segments) = 2
    /\ calc.segments[1].time = "U" /\ calc.segments[2].time = "T"
    /\ calc.lines[3] = <<"S">>

\* C23: the teardown of the working directory is idempotent: when a story
\* run ends (on the success path or on a failure path) and its working
\* directory has already been removed, the teardown raises nothing and the
\* working directories stay as they are.
C23_TeardownIdempotent ==
    [][\A r \in Runs :
         ( /\ run[r].pc \in {"clip", "concat", "probe", "mux"}
           /\ run'[r].pc = "ended"
           /\ run[r].tempDir \notin workDirs )
         => /\ workDirs' = workDirs
            /\ ~run'[r].rmFault /\ ~run'[r].catchRmFault
            /\ run'[r].removals = run[r].removals]_vars

\* A run whose mux succeeded found its working directory already removed by
\* the other run and finished.
C23_Witness ==
    \E r, q \in Runs :
        /\ r # q
        /\ IsStory(r) /\ Ended(r) /\ Finished(r)
        /\ run[r].created /\ run[r].removals = 0 /\ ~run[r].rmFault
        /\ run[q].tempDir = run[r].tempDir /\ run[q].removals = 1

\* C24: when the concatenation of a story run with N scenes starts, the
\* manifest lists exactly N clip paths, all distinct and absolute, and its
\* k-th entry is the clip rendered from scene k of this run: the path of clip
\* k in the run's directory, and the file at that path holds this run's
\* render.
C24_ManifestInSceneOrder ==
    [][\A r \in Runs :
         ( /\ Len(run'[r].calls) = Len(run[r].calls) + 1
           /\ run'[r].calls[Len(run'[r].calls)][1] = "concat" )
         => LET m == run'[r].manifest
                t == run'[r].tempDir
            IN /\ Len(m) = run'[r].scenes
               /\ \A j, k \in 1..Len(m) : j # k => m[j] # m[k]
               /\ \A k \in 1..Len(m) :
                    /\ m[k].abs
                    /\ m[k].dir = t /\ m[k].clip = k - 1
                    /\ <<t, k - 1, r>> \in clipFiles']_vars

\* the window <<start, length>> of a fade lies inside [0, d]
WindowInside(w, d) == w = NoFade \/ (0 <= w[1] /\ w[1] + w[2] <= d)

\* C25: for every scene of duration d > 0 ms and every scene position, each
\* fade applied to the clip lies inside [0, d]: the fade-in window
\* [0, fadeDuration] and the fade-out window that starts at
\* max(0, d - fadeDuration) and lasts fadeDuration, also for scenes shorter
\* than the fade duration.
C25_FadesInsideScene ==
    calc.op = "plan"
    => \A k \in 1..Len(calc.clips) :
         (calc.clips[k].engine /\ calc.clips[k].duration > 0)
         => /\ WindowInside(calc.clips[k].fadeIn, calc.clips[k].duration)
            /\ WindowInside(calc.clips[k].fadeOut, calc.clips[k].duration)

\* The step in which the concatenation of run r completed while the narration
\* audio of its session is not there (the test of step 3 is reached).
AudioMissingAtStep3(r) ==
    /\ run[r].pc = "concat" /\ run'[r] # run[r]
    /\ ~run'[r].engineFailed
    /\ ~(uploads[run[r].session].exists /\ uploads[run[r].session].audio)

\* the run ends with one error terminal event, without a mux or probe call
\* and without a 'finished' event
FailsBeforeMux(rec) ==
    /\ rec.pc = "ended"
    /\ \E k \in 1..Len(rec.events) : rec.events[k].type = "error"
    /\ \A k \in 1..Len(rec.events) : rec.events[k].type # "finished"
    /\ \A k \in 1..Len(rec.calls) : rec.calls[k][1] \notin {"probe", "mux"}

EndsNow(r) == run[r].pc \notin {"idle", "ended"} /\ run'[r].pc = "ended"

\* C27: a session's upload directory is removed (or changed, once it exists)
\* only in the step in which a run of that session emits 'finished', the
\* removal following the event; a run that ends in failure, that is without
\* a 'finished' event, leaves the upload directories and their files as they
\* were.
C27_UploadsRemovedOnlyOnSuccess ==
    [][/\ \A s \in Sessions :
            (uploads[s].exists /\ uploads'[s] # uploads[s])
            => /\ ~uploads'[s].exists
               /\ \E r \in Runs :
                    /\ run[r].session = s /\ EndsNow(r)
                    /\ ~Finished(r)
                    /\ \E k \in 1..Len(run'[r].events) :
                         run'[r].events[k].type = "finished"
       /\ \A r \in Runs :
            ( /\ EndsNow(r)
              /\ \A k \in 1..Len(run'[r].events) :
                   run'[r].events[k].type # "finished" )
            => uploads' = uploads]_vars

\* a run succeeded and its session's upload directory is gone, while another
\* run failed and its session's upload directory is still there
C27_Witness ==
    \E r, q \in Runs :
        /\ Ended(r) /\ Finished(r) /\ ~run[r].sessionRmFault
        /\ ~uploads[run[r].session].exists
        /\ Ended(q) /\ ~Finished(q) /\ uploads[run[q].session].exists

\* ---- the browser clients ------------------------------------------------------
\* Two pages drive the server: the story client (public/client.js) and the
\* client with the Story and Mixer tabs.  A subtitle file is given by the
\* number of timestamp pairs its text holds, an image selection by its number
\* of files.  The server is seen from the client: a start message opens a run,
\* and the run ends by sending its terminal events.
MaxSelected == 2    \* files of one image selection: 1..MaxSelected
MaxReading == 1     \* subtitle files being read at the same time
MaxClicks == 3      \* clicks on a generate button that pass its test

ClientKinds == {"story", "tabs"}
Buttons(kind) == IF kind = "story" THEN {"generate"} ELSE {"story", "mixer"}
MixerInputs == {"main", "bg", "visual"}
NoFileSelected == 0 - 1

\* what a triggered run sends at its end: socket.emit("finished") followed by
\* the removal of the session directory, whose exception is caught and sent
\* as "error"; or "error" alone
RunOutcomes == {<<"finished">>, <<"error">>, <<"finished", "error">>}

ClientInit ==
    /\ clock = 0
    /\ uploads = [s \in Sessions |-> NoUpload]
    /\ workDirs = {}
    /\ clipFiles = {}
    /\ run = [r \in Runs |-> IdleRun]
    /\ connected = [r \in Runs |-> TRUE]
    /\ \E kind \in ClientKinds :
         calc = [op |-> "client", client |-> kind, mode |-> "story",
                 audio |-> FALSE, srt |-> NoFileSelected, images |-> 0,
                 mixer |-> [f \in MixerInputs |-> FALSE],
                 uploadedFiles |-> [audio |-> FALSE, srt |-> FALSE, images |-> 0],
                 requiredImages |-> 0, reading |-> <<>>,
                 imagesDisabled |-> TRUE,
                 disabled |-> [b \in Buttons(kind) |-> FALSE],
                 uploading |-> <<>>, clicks |-> 0, starts |-> 0,
                 serverRuns |-> {}, awaiting |-> {}, inbox |-> <<>>]

IsClient(kind) == calc.op = "client" /\ calc.client = kind
ClientStep == UNCHANGED <<clock, uploads, workDirs, clipFiles, run, connected>>

\* sequence q without its i-th element
Without(q, i) == SubSeq(q, 1, i - 1) \o SubSeq(q, i + 1, Len(q))

\* audioInput 'change' with a file chosen
AudioChange ==
    /\ calc.op = "client"
    /\ calc' = [calc EXCEPT !.audio = TRUE,
                            !.uploadedFiles.audio =
                                IF calc.client = "story" THEN TRUE ELSE @]
    /\ ClientStep

\* srtInput 'change' with a file of n timestamp pairs, up to the read of its
\* text (await file.text(), reader.readAsText)
SrtChange(n) ==
    /\ calc.op = "client"
    /\ Len(calc.reading) < MaxReading
    /\ calc' = [calc EXCEPT !.srt = n,
                            !.uploadedFiles.srt =
                                IF calc.client = "story" THEN TRUE ELSE @,
                            !.reading = Append(@, n)]
    /\ ClientStep

\* the text of a subtitle file has been read: the rest of the 'change'
\* handler (client.js) or reader.onload (tabs)
SrtRead(i) ==
    /\ calc.op = "client"
    /\ i \in 1..Len(calc.reading)
    /\ calc' = [calc EXCEPT !.reading = Without(@, i),
                            !.imagesDisabled = FALSE,
                            !.requiredImages =
                                IF calc.client = "story"
                                THEN calc.reading[i] ELSE @]
    /\ ClientStep

\* imagesInput 'change' with k >= 1 files
ImagesChange(k) ==
    /\ calc.op = "client"
    /\ ~calc.imagesDisabled
    /\ calc' = [calc EXCEPT !.images = k,
                            !.uploadedFiles.images =
                                IF calc.client # "story" THEN @
                                ELSE IF k # calc.requiredImages THEN 0 ELSE k]
    /\ ClientStep

\* a file is chosen in one of the three inputs of the Mixer tab
MixerSelect(f) ==
    /\ IsClient("tabs")
    /\ ~calc.mixer[f]
    /\ calc' = [calc EXCEPT !.mixer[f] = TRUE]
    /\ ClientStep

\* tabStory / tabMixer click
SwitchMode(mode) ==
    /\ IsClient("tabs")
    /\ calc.mode # mode
    /\ calc' = [calc EXCEPT !.mode = mode]
    /\ ClientStep

\* resetBtn click: the inputs are emptied; the buttons are left as they are
ResetClick ==
    /\ IsClient("tabs")
    /\ calc' = [calc EXCEPT !.audio = FALSE, !.srt = NoFileSelected,
                            !.images = 0, !.imagesDisabled = TRUE,
                            !.mixer = [f \in MixerInputs |-> FALSE]]
    /\ ClientStep

\* setProcessing(isProcessing)
SetProcessing(c, isProcessing) ==
    [c EXCEPT !.disabled = [b \in Buttons("tabs") |-> isProcessing]]

\* generateBtn click past its test, up to the first upload
GenerateClicked(c) ==
    [c EXCEPT !.disabled["generate"] = TRUE,
              !.uploading = Append(@, "story"), !.clicks = @ + 1]

\* generateBtn click (client.js); a disabled button receives no click
GenerateClick ==
    /\ IsClient("story")
    /\ ~calc.disabled["generate"]
    /\ calc.clicks < MaxClicks
    /\ ~( \/ ~calc.uploadedFiles.audio
          \/ ~calc.uploadedFiles.srt
          \/ calc.uploadedFiles.images = 0 )
    /\ calc' = GenerateClicked(calc)
    /\ ClientStep

\* generateStoryBtn click; the button of a hidden section receives no click
GenerateStoryClick ==
    /\ IsClient("tabs")
    /\ calc.mode = "story" /\ ~calc.disabled["story"]
    /\ calc.clicks < MaxClicks
    /\ ~(~calc.audio \/ calc.srt = NoFileSelected \/ calc.images = 0)
    /\ calc' = [SetProcessing(calc, TRUE) EXCEPT
                   !.uploading = Append(@, "story"), !.clicks = @ + 1]
    /\ ClientStep

\* generateMixerBtn click
GenerateMixerClick ==
    /\ IsClient("tabs")
    /\ calc.mode = "mixer" /\ ~calc.disabled["mixer"]
    /\ calc.clicks < MaxClicks
    /\ ~(~calc.mixer["main"] \/ ~calc.mixer["bg"] \/ ~calc.mixer["visual"])
    /\ calc' = [SetProcessing(calc, TRUE) EXCEPT
                   !.uploading = Append(@, "mixed"), !.clicks = @ + 1]
    /\ ClientStep

\* the buttons are enabled again: generateBtn.disabled = false, or
\* setProcessing(false)
Enable(c) ==
    IF c.client = "story"
    THEN [c EXCEPT !.disabled["generate"] = FALSE]
    ELSE SetProcessing(c, FALSE)

\* The uploads of the i-th pending click have ended.  With all responses ok
\* the handler emits start-generation or start-mixed-generation, which opens
\* a run at the server; otherwise its catch enables the buttons.
UploadsEnd(i, ok) ==
    /\ calc.op = "client"
    /\ i \in 1..Len(calc.uploading)
    /\ LET c == [calc EXCEPT !.uploading = Without(@, i)]
           id == calc.starts + 1
       IN calc' = IF ok
                  THEN [c EXCEPT !.starts = id,
                                 !.serverRuns = @ \cup {id},
                                 !.awaiting = @ \cup {id}]
                  ELSE Enable(c)
    /\ ClientStep

\* a triggered run ends at the server and sends its terminal events
RunEnds(id, out) ==
    /\ calc.op = "client"
    /\ id \in calc.serverRuns
    /\ calc' = [calc EXCEPT
                   !.serverRuns = @ \ {id},
                   !.inbox = @ \o [k \in 1..Len(out) |->
                                      [type |-> out[k], id |-> id]]]
    /\ ClientStep

\* socket.on('finished') / socket.on('error'): the next message of the socket
Receive ==
    /\ calc.op = "client"
    /\ calc.inbox # <<>>
    /\ calc' = [Enable(calc) EXCEPT !.inbox = Tail(@),
                                    !.awaiting = @ \ {calc.inbox[1].id}]
    /\ ClientStep

ClientNext ==
    \/ AudioChange
    \/ \E n \in 0..MaxScenes : SrtChange(n)
    \/ \E i \in 1..MaxReading : SrtRead(i)
    \/ \E k \in 1..MaxSelected : ImagesChange(k)
    \/ \E f \in MixerInputs : MixerSelect(f)
    \/ \E mode \in {"story", "mixer"} : SwitchMode(mode)
    \/ ResetClick
    \/ GenerateClick
    \/ GenerateStoryClick
    \/ GenerateMixerClick
    \/ \E i \in 1..MaxClicks, ok \in BOOLEAN : UploadsEnd(i, ok)
    \/ \E id \in 1..MaxClicks, out \in RunOutcomes : RunEnds(id, out)
    \/ Receive

ClientSpec == ClientInit /\ [][ClientNext]_vars

\* C28: in the story client, after any sequence of subtitle-file and
\* image-file selections, a click on Generate starts the uploads (and with
\* them start-generation) only when the number of images currently selected
\* equals the number of scenes detected in the subtitle file currently
\* selected.
C28_GenerateOnlyOnMatchingCount ==
    [][(IsClient("story") /\ calc'.clicks = calc.clicks + 1)
       => calc.images = calc.srt]_vars

\* C29: a client has at most one run in flight: it emits no start-generation
\* or start-mixed-generation while a run it started earlier has not sent it a
\* terminal event, and from a click that starts a generation until then (or
\* until the upload fails) every generate button is disabled.
C29_OneRunInFlight ==
    [][/\ calc.op = "client" /\ calc'.starts = calc.starts + 1
          => calc.awaiting = {}
       /\ (calc'.op = "client"
           /\ (calc'.uploading # <<>> \/ calc'.awaiting # {}))
          => \A b \in DOMAIN calc'.disabled : calc'.disabled[b]]_vars

====
